---- MODULE Spec2Model ----
(***************************************************************************)
(* Model of the ce-analytics custom element: the value codec               *)
(* (src/customElement/value.ts), the config gate                           *)
(* (src/customElement/config.ts) and the dashboard component with its      *)
(* mount effect, refresh handler and data generator                        *)
(* (src/components/AnalyticsDashboard.tsx).                                *)
(*                                                                         *)
(* JavaScript values are records [t, s, n, kids, keys] of one shape:       *)
(*   t    the type tag: "null", "undefined", "true", "false", "nan",       *)
(*        "num", "str", "arr", "obj"                                       *)
(*   s    the characters of a string                                       *)
(*   n    a number, in tenths (the generator rounds its non-integer        *)
(*        figures to one decimal, so tenths are exact)                     *)
(*   kids the elements of an array, or the property values of an object    *)
(*   keys the property names of an object, in insertion order              *)
(* A JSON text is the sequence of its tokens, records [k, s, n].           *)
(***************************************************************************)
EXTENDS Integers, Sequences, FiniteSets, TLC

----------------------------------------------------------------------------
(* JavaScript values *)

JVal(t, s, n, kids, keys) == [t |-> t, s |-> s, n |-> n, kids |-> kids, keys |-> keys]

JNull == JVal("null", "", 0, <<>>, <<>>)

JUndefined == JVal("undefined", "", 0, <<>>, <<>>)

JTrue == JVal("true", "", 0, <<>>, <<>>)

JFalse == JVal("false", "", 0, <<>>, <<>>)

JNaN == JVal("nan", "", 0, <<>>, <<>>)

JNum(tenths) == JVal("num", "", tenths, <<>>, <<>>)

JInt(i) == JNum(10 * i)

JStr(s) == JVal("str", s, 0, <<>>, <<>>)

JArr(elems) == JVal("arr", "", 0, elems, <<>>)

JObj(keys, vals) == JVal("obj", "", 0, vals, keys)

IndexOf(seq, x) ==
    IF \E i \in 1..Len(seq) : seq[i] = x
    THEN CHOOSE i \in 1..Len(seq) : seq[i] = x /\ \A j \in 1..(i - 1) : seq[j] # x
    ELSE 0

(* o[key] = val on an object: an existing property keeps its position *)
ObjSet(o, key, val) ==
    IF IndexOf(o.keys, key) = 0
    THEN JObj(Append(o.keys, key), Append(o.kids, val))
    ELSE JObj(o.keys, [o.kids EXCEPT ![IndexOf(o.keys, key)] = val])

(* v.key for a v that is neither null nor undefined *)
Get(v, key) ==
    IF v.t = "obj" /\ IndexOf(v.keys, key) # 0
    THEN v.kids[IndexOf(v.keys, key)]
    ELSE JUndefined

(* v?.key *)
OptGet(v, key) ==
    IF v.t \in {"null", "undefined"} THEN JUndefined ELSE Get(v, key)

(* ToBoolean *)
Truthy(v) ==
    CASE v.t \in {"null", "undefined", "false", "nan"} -> FALSE
      [] v.t = "num" -> v.n # 0
      [] v.t = "str" -> v.s # ""
      [] OTHER -> TRUE

(* a || b *)
JsOr(a, b) == IF Truthy(a) THEN a ELSE b

----------------------------------------------------------------------------
(* JSON texts *)

Tok(k, s, n) == [k |-> k, s |-> s, n |-> n]

P(s) == Tok("p", s, 0)

Lit(s) == Tok("lit", s, 0)

NumTok(tenths) == Tok("num", "", tenths)

StrTok(s) == Tok("str", s, 0)

Word(s) == Tok("bad", s, 0)

(* a string | null of the host value channel *)
NoText == [isNull |-> TRUE, toks |-> <<>>]

Text(toks) == [isNull |-> FALSE, toks |-> toks]

RECURSIVE Stringify(_)
RECURSIVE StringifyElems(_, _)
RECURSIVE StringifyMembers(_, _, _)

(* the elements of an array from index i on, comma separated *)
StringifyElems(elems, i) ==
    IF i > Len(elems) THEN <<>>
    ELSE (IF i > 1 THEN <<P(",")>> ELSE <<>>)
         \o (IF elems[i].t = "undefined" THEN <<Lit("null")>> ELSE Stringify(elems[i]))
         \o StringifyElems(elems, i + 1)

(* the properties of an object from index i on; first: none written yet *)
StringifyMembers(o, i, first) ==
    IF i > Len(o.keys) THEN <<>>
    ELSE IF o.kids[i].t = "undefined" THEN StringifyMembers(o, i + 1, first)
    ELSE (IF first THEN <<>> ELSE <<P(",")>>)
         \o <<StrTok(o.keys[i]), P(":")>> \o Stringify(o.kids[i])
         \o StringifyMembers(o, i + 1, FALSE)

(* JSON.stringify(v) for a v other than undefined *)
Stringify(v) ==
    CASE v.t \in {"null", "nan", "undefined"} -> <<Lit("null")>>
      [] v.t \in {"true", "false"} -> <<Lit(v.t)>>
      [] v.t = "num" -> <<NumTok(v.n)>>
      [] v.t = "str" -> <<StrTok(v.s)>>
      [] v.t = "arr" -> <<P("[")>> \o StringifyElems(v.kids, 1) \o <<P("]")>>
      [] v.t = "obj" -> <<P("{")>> \o StringifyMembers(v, 1, TRUE) \o <<P("}")>>

Fail == [ok |-> FALSE, val |-> JUndefined, rest |-> <<>>]

Done(v, rest) == [ok |-> TRUE, val |-> v, rest |-> rest]

IsP(toks, s) == Len(toks) > 0 /\ toks[1].k = "p" /\ toks[1].s = s

RECURSIVE ParseJsonValue(_)
RECURSIVE ParseElems(_, _)
RECURSIVE ParseMembers(_, _)

(* after "[" and the elements acc: value ("," value)* "]" *)
ParseElems(toks, acc) ==
    LET r == ParseJsonValue(toks) IN
    IF ~r.ok THEN Fail
    ELSE IF IsP(r.rest, ",") THEN ParseElems(Tail(r.rest), Append(acc, r.val))
    ELSE IF IsP(r.rest, "]") THEN Done(JArr(Append(acc, r.val)), Tail(r.rest))
    ELSE Fail

(* after "{" and the properties acc: string ":" value ("," ...)* "}" *)
ParseMembers(toks, acc) ==
    IF Len(toks) < 2 \/ toks[1].k # "str" \/ ~IsP(Tail(toks), ":") THEN Fail
    ELSE LET r == ParseJsonValue(Tail(Tail(toks)))
             o == ObjSet(acc, toks[1].s, r.val)
         IN  IF ~r.ok THEN Fail
             ELSE IF IsP(r.rest, ",") THEN ParseMembers(Tail(r.rest), o)
             ELSE IF IsP(r.rest, "}") THEN Done(o, Tail(r.rest))
             ELSE Fail

(* one JSON value at the head of toks *)
ParseJsonValue(toks) ==
    IF Len(toks) = 0 THEN Fail
    ELSE LET h == toks[1] IN
         CASE h.k = "lit" /\ h.s = "null" -> Done(JNull, Tail(toks))
           [] h.k = "lit" /\ h.s = "true" -> Done(JTrue, Tail(toks))
           [] h.k = "lit" /\ h.s = "false" -> Done(JFalse, Tail(toks))
           [] h.k = "num" -> Done(JNum(h.n), Tail(toks))
           [] h.k = "str" -> Done(JStr(h.s), Tail(toks))
           [] IsP(toks, "[") ->
                IF IsP(Tail(toks), "]") THEN Done(JArr(<<>>), Tail(Tail(toks)))
                ELSE ParseElems(Tail(toks), <<>>)
           [] IsP(toks, "{") ->
                IF IsP(Tail(toks), "}") THEN Done(JObj(<<>>, <<>>), Tail(Tail(toks)))
                ELSE ParseMembers(Tail(toks), JObj(<<>>, <<>>))
           [] OTHER -> Fail

(* JSON.parse(text): threw is a SyntaxError *)
JsonParse(toks) ==
    LET r == ParseJsonValue(toks) IN
    IF r.ok /\ r.rest = <<>> THEN [threw |-> FALSE, val |-> r.val]
    ELSE [threw |-> TRUE, val |-> JUndefined]

----------------------------------------------------------------------------
(* src/customElement/value.ts *)

(* a check of the field's value in place of its presence: obj.analyticsData *)
isValidValueTruthy(obj) ==
    IF obj.t \in {"null", "undefined"} THEN [threw |-> TRUE, val |-> FALSE]
    ELSE [threw |-> FALSE, val |-> Truthy(Get(obj, "analyticsData"))]

(* "analyticsData" in obj: threw is a TypeError (obj is not an object) *)
isValidValue(obj) ==
    IF obj.t \notin {"obj", "arr"} THEN [threw |-> TRUE, val |-> FALSE]
    ELSE [threw |-> FALSE, val |-> obj.t = "obj" /\ IndexOf(obj.keys, "analyticsData") # 0]

invalidValue == JStr("invalidValue")

(* parseValue without its null check: JSON.parse(null) parses "null" *)
parseValueNoNullCheck(input) ==
    LET parsed == JsonParse(IF input.isNull THEN <<Lit("null")>> ELSE input.toks) IN
    IF parsed.threw THEN invalidValue
    ELSE LET valid == isValidValue(parsed.val) IN
         IF valid.threw THEN invalidValue
         ELSE IF valid.val THEN parsed.val ELSE invalidValue

(* parseValue with isValidValue outside its try: the TypeError of the `in` *)
(* operator escapes, which is the result of type "throw"                   *)
parseValueNoCatch(input) ==
    IF input.isNull THEN JNull
    ELSE LET parsed == JsonParse(input.toks) IN
         IF parsed.threw THEN invalidValue
         ELSE LET valid == isValidValue(parsed.val) IN
              IF valid.threw THEN JVal("throw", "TypeError", 0, <<>>, <<>>)
              ELSE IF valid.val THEN parsed.val ELSE invalidValue

(* parseValue with a check that analyticsData is an object *)
parseValueDeep(input) ==
    IF input.isNull THEN JNull
    ELSE LET parsed == JsonParse(input.toks) IN
         IF parsed.threw THEN invalidValue
         ELSE LET valid == isValidValue(parsed.val) IN
              IF valid.threw THEN invalidValue
              ELSE IF valid.val /\ Get(parsed.val, "analyticsData").t = "obj"
                   THEN parsed.val ELSE invalidValue

parseValue(input) ==
    IF input.isNull THEN JNull
    ELSE LET parsed == JsonParse(input.toks) IN
         IF parsed.threw THEN invalidValue
         ELSE LET valid == isValidValue(parsed.val) IN
              IF valid.threw THEN invalidValue
              ELSE IF valid.val THEN parsed.val ELSE invalidValue

----------------------------------------------------------------------------
(* src/customElement/config.ts *)

(* a check that also wants one of the fields of Config *)
isConfigWithField(value) == value.t = "obj" /\ Len(value.keys) > 0

isConfig(value) == value.t # "null"

----------------------------------------------------------------------------
(* Time: an instant is a number of milliseconds since 2024-03-20T00:00:00Z *)

SecondMs == 1000

MinuteMs == 60 * SecondMs

HourMs == 60 * MinuteMs

DayMs == 24 * HourMs

At(day, hour, minute) == day * DayMs + hour * HourMs + minute * MinuteMs

Pad2(k) == IF k < 10 THEN "0" \o ToString(k) ELSE ToString(k)

Pad3(k) == IF k < 100 THEN "0" \o Pad2(k) ELSE ToString(k)

(* the YYYY-MM-DD of a UTC day number (day 0 is 20 March 2024) *)
IsoDate(day) ==
    IF day <= 11 THEN "2024-03-" \o Pad2(20 + day) ELSE "2024-04-" \o Pad2(day - 11)

(* Date.prototype.toISOString *)
toISOString(t) ==
    IsoDate(t \div DayMs) \o "T" \o Pad2((t % DayMs) \div HourMs)
        \o ":" \o Pad2((t % HourMs) \div MinuteMs)
        \o ":" \o Pad2((t % MinuteMs) \div SecondMs)
        \o "." \o Pad3(t % SecondMs) \o "Z"

(* toISOString().split('T')[0] *)
IsoDay(t) == IsoDate(t \div DayMs)

(* A host time zone: the UTC offset is tz.before until the instant tz.at   *)
(* and tz.after from it on.                                                *)
UtcOffset(tz, t) == IF t < tz.at THEN tz.before ELSE tz.after

(* the offset of a local time; a repeated or skipped local time takes the  *)
(* offset before the transition                                            *)
LocalOffset(tz, tl) ==
    IF tl - tz.before < tz.at THEN tz.before
    ELSE IF tl - tz.after >= tz.at THEN tz.after
    ELSE tz.before

(* date.setDate(date.getDate() + delta): days are stepped in local time *)
setDate(tz, t, delta) ==
    LET tl == t + UtcOffset(tz, t) + delta * DayMs
    IN  tl - LocalOffset(tz, tl)

----------------------------------------------------------------------------
(* src/components/AnalyticsDashboard.tsx: the data generator *)

(* a window that is one day short *)
historyDaysShort == 7 - 1

historyDays == 7

(* Math.random() returns u / RandDen for a draw u in 0..RandDen-1 *)
RandDen == 1000

(* Math.floor(Math.random() * 500) + 100 *)
DayViews(u) == ((u * 500) \div RandDen) + 100

RECURSIVE SumViews(_, _)
(* pageViewsHistory.reduce((sum, day) => sum + day.views, 0) *)
SumViews(history, i) ==
    IF i > Len(history) THEN 0
    ELSE Get(history[i], "views").n \div 10 + SumViews(history, i + 1)

(* a visitor ratio drawn from [0.6, 1.2) *)
UniqueVisitorsWide(totalViews, u) == (totalViews * (6 * RandDen + 6 * u)) \div (10 * RandDen)

(* Math.floor(totalViews * (0.6 + Math.random() * 0.2)) *)
UniqueVisitors(totalViews, u) == (totalViews * (6 * RandDen + 2 * u)) \div (10 * RandDen)

(* Math.round((20 + Math.random() * 30) * 10) / 10, in tenths *)
BounceRate(u) == (400 * RandDen + 600 * u + RandDen) \div (2 * RandDen)

(* Math.round((45 + Math.random() * 180) * 10) / 10, in tenths *)
AvgTimeOnPage(u) == (900 * RandDen + 3600 * u + RandDen) \div (2 * RandDen)

(* rnd: the draws of Math.random, in call order: rnd.views[1..7], then     *)
(* rnd.visitors, rnd.bounce, rnd.time                                      *)
PageViewsHistory(now, tz, rnd) ==
    [i \in 1..historyDays |->
        JObj(<<"date", "views">>,
             <<JStr(IsoDay(setDate(tz, now, -(historyDays - i)))),
               JInt(DayViews(rnd.views[i]))>>)]

generateFakeAnalytics(now, tz, rnd) ==
    LET pageViewsHistory == PageViewsHistory(now, tz, rnd)
        totalViews == SumViews(pageViewsHistory, 1)
    IN  JObj(<<"pageViews", "uniqueVisitors", "bounceRate", "avgTimeOnPage",
               "lastUpdated", "pageViewsHistory">>,
             <<JInt(totalViews),
               JInt(UniqueVisitors(totalViews, rnd.visitors)),
               JNum(BounceRate(rnd.bounce)),
               JNum(AvgTimeOnPage(rnd.time)),
               JStr(toISOString(now)),
               JArr(pageViewsHistory)>>)

(* the bare snapshot in place of its wrapper *)
WrapNone(data) == data

(* { analyticsData: data } *)
Wrap(data) == JObj(<<"analyticsData">>, <<data>>)

----------------------------------------------------------------------------
(* Bounds and inputs *)

(* the number of clicks on the refresh button in one run *)
MaxClicks == 2

(* the number of times the host reloads the element in one run *)
MaxReloads == 1

(* the draws of Math.random that are tried: the least and the greatest *)
Draws == {0, RandDen - 1}

RandomStreams ==
    {[views |-> [i \in 1..historyDays |-> u], visitors |-> (RandDen - 1) - u,
      bounce |-> u, time |-> (RandDen - 1) - u] : u \in Draws}

(* how late, in ms, a timer callback runs after its delay *)
Lateness == {0, 1}

Utc == [before |-> 0, after |-> 0, at |-> 0]

(* UTC+1 until 31 March 2024 01:00 UTC, UTC+2 from then on *)
Amsterdam == [before |-> HourMs, after |-> 2 * HourMs, at |-> At(11, 1, 0)]

(* the browsers that load the element: a time zone and the instant of load *)
StartClocks ==
    {[tz |-> Utc, now |-> At(15, 12, 0) + 7], [tz |-> Amsterdam, now |-> At(13, 23, 30)]}

(* UTC+9 all year *)
Tokyo == [before |-> 9 * HourMs, after |-> 9 * HourMs, at |-> 0]

(* UTC-4 throughout the modelled weeks *)
NewYork == [before |-> -(4 * HourMs), after |-> -(4 * HourMs), at |-> 0]

(* UTC+11 until 6 April 2024 16:00 UTC, UTC+10 from then on *)
Sydney == [before |-> 11 * HourMs, after |-> 10 * HourMs, at |-> At(17, 16, 0)]

(* the time zones and instants at which the generator is run in GenSpec:   *)
(* midday, just before and just after UTC midnight, before and after the   *)
(* changes of offset                                                       *)
GenClocks ==
    {[tz |-> z, now |-> t] :
        z \in {Utc, Amsterdam, Tokyo, NewYork, Sydney},
        t \in {At(9, 12, 0), At(13, 23, 30), At(14, 0, 30) + 999, At(15, 12, 0) + 7,
               At(20, 0, 30), At(20, 15, 30)}}

(* the draws of Math.random in GenSpec: the views of the days all least,   *)
(* all greatest, rising or alternating, with each of three visitor draws   *)
GenStreams ==
    {[views |-> v, visitors |-> w, bounce |-> w, time |-> (RandDen - 1) - w] :
        v \in {[i \in 1..historyDays |-> 0],
               [i \in 1..historyDays |-> RandDen - 1],
               [i \in 1..historyDays |-> (i * (RandDen - 1)) \div historyDays],
               [i \in 1..historyDays |-> IF i % 2 = 0 THEN 0 ELSE RandDen - 1]},
        w \in {0, RandDen \div 2, RandDen - 1}}

(* a snapshot persisted by an earlier session of the element *)
SavedSnapshot == generateFakeAnalytics(At(8, 9, 15) + 123, Utc, CHOOSE r \in RandomStreams : TRUE)

(* a second one, of another day and other draws *)
OlderSnapshot ==
    generateFakeAnalytics(At(7, 23, 59), Utc,
                          [views |-> [i \in 1..historyDays |-> 250], visitors |-> 500,
                           bounce |-> 333, time |-> 1])

(* a snapshot without its pageViewsHistory *)
NoHistorySnapshot ==
    JObj(<<"pageViews", "uniqueVisitors", "bounceRate", "avgTimeOnPage", "lastUpdated">>,
         <<JInt(10), JInt(7), JNum(305), JNum(1200), JStr(toISOString(At(8, 9, 15)))>>)

(* the values whose serialization the host may hold when the element is   *)
(* loaded                                                                  *)
HostDocs ==
    {Wrap(SavedSnapshot), Wrap(JNull), Wrap(JInt(5)), Wrap(JStr("")),
     Wrap(NoHistorySnapshot), Wrap(JObj(<<"pageViewsHistory">>, <<JArr(<<>>)>>)),
     JObj(<<>>, <<>>)}

HostTexts ==
    {NoText, Text(<<Word("not"), Word("json")>>)} \cup {Text(Stringify(j)) : j \in HostDocs}

(* the values whose serialization is decoded in CodecSpec *)
JsonDocs ==
    HostDocs \cup
    {Wrap(OlderSnapshot), Wrap(JInt(0)), Wrap(JStr("abc")), Wrap(JFalse), Wrap(JTrue),
     Wrap(JArr(<<>>)), Wrap(JArr(<<JNull, JInt(1)>>)), Wrap(Wrap(JNull)),
     ObjSet(Wrap(JNull), "extra", JInt(1)),
     ObjSet(JObj(<<"extra">>, <<JStr("analyticsData")>>), "analyticsData", SavedSnapshot),
     JObj(<<"other">>, <<SavedSnapshot>>), JObj(<<"analyticsdata">>, <<JNull>>),
     JObj(<<"data">>, <<Wrap(JNull)>>),
     JNull, JTrue, JFalse, JInt(5), JInt(0), JStr("analyticsData"), JStr(""), JArr(<<>>),
     JArr(<<JStr("analyticsData")>>), JArr(<<Wrap(JNull)>>)}

(* the configuration of an element that was configured with {} *)
EmptyConfig == JObj(<<>>, <<>>)

(* a field of a configuration: absent (undefined) or one of these values *)
ConfigFieldValues ==
    {JUndefined, JStr("ga4"), JStr(""), JInt(30), JInt(0), JNull, JTrue,
     JObj(<<>>, <<>>)}

(* the configurations the host may hand to the element: null, and the     *)
(* objects with any of the fields of Config and an unknown one, at values  *)
(* of the declared type and of other types                                 *)
Configs ==
    {JNull} \cup
    {LET withService == IF s = JUndefined THEN EmptyConfig
                        ELSE ObjSet(EmptyConfig, "analyticsService", s)
         withInterval == IF r = JUndefined THEN withService
                         ELSE ObjSet(withService, "refreshInterval", r)
     IN  IF x = JUndefined THEN withInterval ELSE ObjSet(withInterval, "apiKey", x)
     : s \in ConfigFieldValues, r \in ConfigFieldValues, x \in {JUndefined, JStr("k")}}

(* the proper prefixes of a token sequence *)
Prefixes(toks) == {SubSeq(toks, 1, k) : k \in 0..(Len(toks) - 1)}

(* token sequences that are not JSON texts: words, misplaced punctuation   *)
(* and the truncations of the text of an object                            *)
Garbage ==
    {<<Word("not"), Word("json")>>,
     <<P("{"), StrTok("analyticsData"), P(":"), Lit("null"), P(","), P("}")>>,
     <<P("{"), StrTok("analyticsData"), P(":"), Lit("null"), P("}"), P("}")>>,
     <<P("{"), Word("analyticsData"), P(":"), Lit("null"), P("}")>>,
     <<P("{"), StrTok("analyticsData"), Lit("null"), P("}")>>,
     <<P("{"), StrTok("analyticsData"), P(":"), P("}")>>,
     <<P("["), P(","), P("]")>>,
     <<Lit("null"), Lit("null")>>}
    \cup Prefixes(Stringify(Wrap(JNull)))
    \cup Prefixes(Stringify(Wrap(NoHistorySnapshot)))
    \cup Prefixes(Stringify(Wrap(JArr(<<JNull, JInt(1)>>))))

(* the inputs of parseValue in CodecSpec, each with the value it is the    *)
(* JSON text of, if any                                                    *)
CodecCases ==
    {[text |-> NoText, isJson |-> FALSE, doc |-> JUndefined]}
    \cup {[text |-> Text(Stringify(j)), isJson |-> TRUE, doc |-> j] : j \in JsonDocs}
    \cup {[text |-> Text(g), isJson |-> FALSE, doc |-> JUndefined] : g \in Garbage}

----------------------------------------------------------------------------
(* State *)

VARIABLES
    hostValue,      \* the string | null the host holds for the element
    initialValue,   \* the hostValue the element was loaded with
    tz,             \* the time zone of the browser
    now,            \* the clock
    phase,          \* "boot", "loaded", "rendered", "mounted", "unmounted", "crashed"
    decoded,        \* the result of parseValue on the loaded string
    value,          \* the value of useValue()
    analyticsData,  \* useState: the displayed snapshot
    isLoading,      \* useState: a refresh is running
    timers,         \* the due times of the pending setTimeout callbacks
    clicks,         \* the number of clicks on the refresh button
    fired,          \* the number of timer callbacks that have run
    genCalls,       \* the number of calls of generateFakeAnalytics
    writes,         \* the number of calls of setValue
    reloads,        \* the number of times the host has reloaded the element
    lastShown,      \* the snapshot that was displayed when the host reloaded
    config,         \* the configuration object | null the host holds for the element
    configOk        \* the result of isConfig on the configuration

vars == <<hostValue, initialValue, tz, now, phase, decoded, value, analyticsData,
          isLoading, timers, clicks, fired, genCalls, writes, reloads, lastShown,
          config, configOk>>

(* a child of a JSX element that React refuses to render *)
InvalidChild(v) == v.t = "obj" \/ (v.t = "arr" /\ \E i \in 1..Len(v.kids) : v.kids[i].t = "obj")

(* the render of the dashboard (lines 160-269) throws on data *)
RenderThrows(data) ==
    LET history == Get(data, "pageViewsHistory") IN
    \/ InvalidChild(Get(data, "pageViews"))
    \/ InvalidChild(Get(data, "uniqueVisitors"))
    \/ history.t # "arr"
    \/ \E i \in 1..Len(history.kids) :
          \/ history.kids[i].t = "null"
          \/ InvalidChild(Get(history.kids[i], "views"))

(* what the component renders for its state *)
RenderOutcome(data) ==
    IF ~Truthy(data) THEN "loading"
    ELSE IF RenderThrows(data) THEN "crash"
    ELSE "dashboard"

(* the string that setValue hands to the host *)
Encode(v) == Text(Stringify(v))

(* the value useValue() returns for the loaded string *)
UseValue(d) == IF d = invalidValue THEN JNull ELSE d

Init ==
    /\ hostValue \in HostTexts
    /\ initialValue = hostValue
    /\ \E c \in StartClocks : tz = c.tz /\ now = c.now
    /\ phase = "boot"
    /\ decoded = JUndefined
    /\ value = JUndefined
    /\ analyticsData = JNull
    /\ isLoading = FALSE
    /\ timers = <<>>
    /\ clicks = 0
    /\ fired = 0
    /\ genCalls = 0
    /\ writes = 0
    /\ reloads = 0
    /\ lastShown = JNull
    /\ config = EmptyConfig
    /\ configOk = FALSE

(* the element context reads and decodes the host's string *)
InitContext ==
    /\ phase = "boot"
    /\ decoded' = parseValue(hostValue)
    /\ value' = UseValue(decoded')
    /\ configOk' = isConfig(config)
    /\ phase' = "loaded"
    /\ UNCHANGED <<hostValue, initialValue, tz, now, analyticsData, isLoading, timers,
                   clicks, fired, genCalls, writes>>
    /\ UNCHANGED <<reloads, lastShown, config>>

(* the first render: useState(false), useState(value?.analyticsData || null) *)
FirstRender ==
    /\ phase = "loaded"
    /\ isLoading' = FALSE
    /\ analyticsData' = JsOr(OptGet(value, "analyticsData"), JNull)
    /\ phase' = IF RenderOutcome(analyticsData') = "crash" THEN "crashed" ELSE "rendered"
    /\ UNCHANGED <<hostValue, initialValue, tz, now, decoded, value, timers,
                   clicks, fired, genCalls, writes>>
    /\ UNCHANGED <<reloads, lastShown, config, configOk>>

(* the always-false condition of a mount effect that never reuses data *)
HasSavedDataNever(v) == FALSE

(* the condition of a mount effect that tests the value, not its field *)
HasSavedDataIfValue(v) == Truthy(v)

(* the condition of the mount effect: value?.analyticsData *)
HasSavedData(v) == Truthy(OptGet(v, "analyticsData"))

(* a mount effect that writes the saved snapshot back to the host *)
MountEffectRewrites ==
    /\ phase = "rendered"
    /\ IF HasSavedData(value)
       THEN /\ analyticsData' = OptGet(value, "analyticsData")
            /\ value' = Wrap(analyticsData')
            /\ hostValue' = Encode(Wrap(analyticsData'))
            /\ writes' = writes + 1
            /\ UNCHANGED genCalls
       ELSE \E rnd \in RandomStreams :
            LET fakeData == generateFakeAnalytics(now, tz, rnd) IN
            /\ analyticsData' = fakeData
            /\ value' = Wrap(fakeData)
            /\ hostValue' = Encode(Wrap(fakeData))
            /\ genCalls' = genCalls + 1
            /\ writes' = writes + 1
    /\ phase' = IF RenderOutcome(analyticsData') = "crash" THEN "crashed" ELSE "mounted"
    /\ UNCHANGED <<initialValue, tz, now, decoded, isLoading, timers, clicks, fired>>
    /\ UNCHANGED <<reloads, lastShown, config, configOk>>

(* a mount effect that displays the generated snapshot without writing it *)
MountEffectNoWrite ==
    /\ phase = "rendered"
    /\ IF HasSavedData(value)
       THEN /\ analyticsData' = OptGet(value, "analyticsData")
            /\ UNCHANGED genCalls
       ELSE \E rnd \in RandomStreams :
            /\ analyticsData' = generateFakeAnalytics(now, tz, rnd)
            /\ genCalls' = genCalls + 1
    /\ phase' = IF RenderOutcome(analyticsData') = "crash" THEN "crashed" ELSE "mounted"
    /\ UNCHANGED <<value, hostValue, writes>>
    /\ UNCHANGED <<initialValue, tz, now, decoded, isLoading, timers, clicks, fired>>
    /\ UNCHANGED <<reloads, lastShown, config, configOk>>

(* the mount effect *)
MountEffect ==
    /\ phase = "rendered"
    /\ IF HasSavedData(value)
       THEN /\ analyticsData' = OptGet(value, "analyticsData")
            /\ UNCHANGED <<value, hostValue, genCalls, writes>>
       ELSE \E rnd \in RandomStreams :
            LET fakeData == generateFakeAnalytics(now, tz, rnd) IN
            /\ analyticsData' = fakeData
            /\ value' = Wrap(fakeData)
            /\ hostValue' = Encode(Wrap(fakeData))
            /\ genCalls' = genCalls + 1
            /\ writes' = writes + 1
    /\ phase' = IF RenderOutcome(analyticsData') = "crash" THEN "crashed" ELSE "mounted"
    /\ UNCHANGED <<initialValue, tz, now, decoded, isLoading, timers, clicks, fired>>
    /\ UNCHANGED <<reloads, lastShown, config, configOk>>

(* a refresh button that is never disabled *)
RefreshDisabledNever == FALSE

(* the refresh button's disabled attribute *)
RefreshDisabled == isLoading

(* a refresh timer without delay *)
RefreshDelayNone == 800 - 800

(* the delay of the refresh timer, in ms *)
RefreshDelay == 800

(* a refresh that blanks the display while it runs *)
refreshAnalyticsBlanking ==
    /\ isLoading' = TRUE
    /\ analyticsData' = JNull
    /\ timers' = Append(timers, now + RefreshDelay)

(* refreshAnalytics up to its return; the callback is TimerFire *)
refreshAnalytics ==
    /\ isLoading' = TRUE
    /\ timers' = Append(timers, now + RefreshDelay)
    /\ UNCHANGED analyticsData

(* a click on the refresh button: a disabled button drops it *)
ClickRefresh ==
    /\ phase = "mounted"
    /\ RenderOutcome(analyticsData) = "dashboard"
    /\ clicks < MaxClicks
    /\ clicks' = clicks + 1
    /\ IF RefreshDisabled
       THEN UNCHANGED <<isLoading, timers, analyticsData>>
       ELSE refreshAnalytics
    /\ UNCHANGED <<hostValue, initialValue, tz, now, phase, decoded, value,
                   fired, genCalls, writes>>
    /\ UNCHANGED <<reloads, lastShown, config, configOk>>

(* a timer callback that writes before it generates: the host gets the    *)
(* snapshot that was displayed when the timer fired                        *)
TimerFireWriteFirst ==
    /\ timers # <<>>
    /\ \E late \in Lateness, rnd \in RandomStreams :
       LET due == Head(timers)
           at == (IF now > due THEN now ELSE due) + late
           newData == generateFakeAnalytics(at, tz, rnd)
       IN  /\ now' = at
           /\ value' = Wrap(analyticsData)
           /\ hostValue' = Encode(Wrap(analyticsData))
           /\ IF phase = "unmounted"
              THEN UNCHANGED <<analyticsData, isLoading, phase>>
              ELSE /\ analyticsData' = newData
                   /\ isLoading' = FALSE
                   /\ phase' = IF RenderOutcome(newData) = "crash" THEN "crashed" ELSE phase
    /\ timers' = Tail(timers)
    /\ fired' = fired + 1
    /\ genCalls' = genCalls + 1
    /\ writes' = writes + 1
    /\ UNCHANGED <<initialValue, tz, decoded, clicks>>
    /\ UNCHANGED <<reloads, lastShown, config, configOk>>

(* the callback of the refresh timer; the state setters of an unmounted    *)
(* component do nothing                                                    *)
TimerFire ==
    /\ timers # <<>>
    /\ \E late \in Lateness, rnd \in RandomStreams :
       LET due == Head(timers)
           at == (IF now > due THEN now ELSE due) + late
           newData == generateFakeAnalytics(at, tz, rnd)
       IN  /\ now' = at
           /\ value' = Wrap(newData)
           /\ hostValue' = Encode(Wrap(newData))
           /\ IF phase = "unmounted"
              THEN UNCHANGED <<analyticsData, isLoading, phase>>
              ELSE /\ analyticsData' = newData
                   /\ isLoading' = FALSE
                   /\ phase' = IF RenderOutcome(newData) = "crash" THEN "crashed" ELSE phase
    /\ timers' = Tail(timers)
    /\ fired' = fired + 1
    /\ genCalls' = genCalls + 1
    /\ writes' = writes + 1
    /\ UNCHANGED <<initialValue, tz, decoded, clicks>>
    /\ UNCHANGED <<reloads, lastShown, config, configOk>>

(* an unmount that clears the pending timer, as an effect cleanup would *)
UnmountClearingTimer ==
    /\ phase = "mounted"
    /\ phase' = "unmounted"
    /\ analyticsData' = JNull
    /\ isLoading' = FALSE
    /\ timers' = <<>>
    /\ UNCHANGED <<hostValue, initialValue, tz, now, decoded, value, clicks, fired,
                   genCalls, writes>>
    /\ UNCHANGED <<reloads, lastShown, config, configOk>>

(* React unmounts the component: its state is discarded; the component     *)
(* registers no effect cleanup and keeps no timer id, so a pending timer   *)
(* stays in the queue                                                      *)
Unmount ==
    /\ phase = "mounted"
    /\ phase' = "unmounted"
    /\ analyticsData' = JNull
    /\ isLoading' = FALSE
    /\ UNCHANGED <<hostValue, initialValue, tz, now, decoded, value, timers, clicks, fired,
                   genCalls, writes>>
    /\ UNCHANGED <<reloads, lastShown, config, configOk>>

(* the host reloads the idle element: a new session of the element is     *)
(* loaded with the string the host holds                                   *)
Reload ==
    /\ phase \in {"mounted", "crashed"}
    /\ timers = <<>>
    /\ reloads < MaxReloads
    /\ reloads' = reloads + 1
    /\ lastShown' = analyticsData
    /\ initialValue' = hostValue
    /\ phase' = "boot"
    /\ decoded' = JUndefined
    /\ value' = JUndefined
    /\ analyticsData' = JNull
    /\ isLoading' = FALSE
    /\ clicks' = 0
    /\ fired' = 0
    /\ genCalls' = 0
    /\ writes' = 0
    /\ configOk' = FALSE
    /\ UNCHANGED <<hostValue, tz, now, timers, config>>

Next ==
    \/ Reload
    \/ InitContext
    \/ FirstRender
    \/ MountEffect
    \/ ClickRefresh
    \/ TimerFire
    \/ Unmount

Spec == Init /\ [][Next]_vars

(* the steps of TimerFire, told by their guard and their effect on the     *)
(* counter: no other action of Next increments fired                       *)
TimerFires == timers # <<>> /\ fired' = fired + 1

(* The event loop runs the callback of a timer that is due: a pending     *)
(* timer is fired eventually                                               *)
FairSpec == Spec /\ WF_fired(TimerFires)

(* The codec alone: parseValue applied to each input of CodecCases *)
CodecInit ==
    /\ \E c \in CodecCases : hostValue = c.text
    /\ initialValue = hostValue
    /\ tz = Utc
    /\ now = At(15, 12, 0)
    /\ phase = "boot"
    /\ decoded = JUndefined
    /\ value = JUndefined
    /\ analyticsData = JNull
    /\ isLoading = FALSE
    /\ timers = <<>>
    /\ clicks = 0
    /\ fired = 0
    /\ genCalls = 0
    /\ writes = 0
    /\ reloads = 0
    /\ lastShown = JNull
    /\ config = EmptyConfig
    /\ configOk = FALSE

CodecNext == InitContext

CodecSpec == CodecInit /\ [][CodecNext]_vars

(* The configuration check alone: isConfig applied to each of Configs *)
ConfigInit ==
    /\ hostValue = NoText
    /\ initialValue = hostValue
    /\ tz = Utc
    /\ now = At(15, 12, 0)
    /\ phase = "boot"
    /\ decoded = JUndefined
    /\ value = JUndefined
    /\ analyticsData = JNull
    /\ isLoading = FALSE
    /\ timers = <<>>
    /\ clicks = 0
    /\ fired = 0
    /\ genCalls = 0
    /\ writes = 0
    /\ reloads = 0
    /\ lastShown = JNull
    /\ config \in Configs
    /\ configOk = FALSE

ConfigNext == InitContext

ConfigSpec == ConfigInit /\ [][ConfigNext]_vars

(* The generator alone: generateFakeAnalytics run once at each clock of    *)
(* GenClocks with each stream of GenStreams                                *)
GenInit ==
    /\ hostValue = NoText
    /\ initialValue = hostValue
    /\ \E c \in GenClocks : tz = c.tz /\ now = c.now
    /\ phase = "boot"
    /\ decoded = JUndefined
    /\ value = JUndefined
    /\ analyticsData = JNull
    /\ isLoading = FALSE
    /\ timers = <<>>
    /\ clicks = 0
    /\ fired = 0
    /\ genCalls = 0
    /\ writes = 0
    /\ reloads = 0
    /\ lastShown = JNull
    /\ config = EmptyConfig
    /\ configOk = FALSE

(* one call of generateFakeAnalytics; analyticsData holds its result *)
Generate ==
    /\ genCalls = 0
    /\ \E rnd \in GenStreams : analyticsData' = generateFakeAnalytics(now, tz, rnd)
    /\ genCalls' = genCalls + 1
    /\ UNCHANGED <<hostValue, initialValue, tz, now, phase, decoded, value, isLoading,
                   timers, clicks, fired, writes>>
    /\ UNCHANGED <<reloads, lastShown, config, configOk>>

GenNext == Generate

GenSpec == GenInit /\ [][GenNext]_vars

----------------------------------------------------------------------------
(* The states of the controller, in terms of the component's state *)

(* Ready(analyticsData) *)
Ready == phase = "mounted" /\ ~isLoading /\ RenderOutcome(analyticsData) = "dashboard"

(* Refreshing(analyticsData) *)
Refreshing == phase = "mounted" /\ isLoading /\ RenderOutcome(analyticsData) = "dashboard"

IsCount(v) == v.t = "num" /\ v.n >= 0 /\ v.n % 10 = 0

IsHistoryEntry(e) ==
    /\ e.t = "obj"
    /\ e.keys = <<"date", "views">>
    /\ Get(e, "date").t = "str"
    /\ IsCount(Get(e, "views"))

(* d is a well-formed AnalyticsSnapshot *)
IsSnapshot(d) ==
    /\ d.t = "obj"
    /\ d.keys = <<"pageViews", "uniqueVisitors", "bounceRate", "avgTimeOnPage",
                  "lastUpdated", "pageViewsHistory">>
    /\ IsCount(Get(d, "pageViews"))
    /\ IsCount(Get(d, "uniqueVisitors"))
    /\ Get(d, "bounceRate").t = "num"
    /\ Get(d, "avgTimeOnPage").t = "num"
    /\ Get(d, "lastUpdated").t = "str"
    /\ Get(d, "pageViewsHistory").t = "arr"
    /\ \A i \in 1..Len(Get(d, "pageViewsHistory").kids) :
          IsHistoryEntry(Get(d, "pageViewsHistory").kids[i])

TypeOK ==
    /\ reloads \in 0..MaxReloads
    /\ phase \in {"boot", "loaded", "rendered", "mounted", "unmounted", "crashed"}
    /\ isLoading \in BOOLEAN
    /\ clicks \in 0..MaxClicks
    /\ fired <= clicks

----------------------------------------------------------------------------
(* C1: at most one refresh timer is ever pending, and a click on the       *)
(* refresh button while one is pending changes nothing: no second timer,   *)
(* no generator call, no write, no change of the display.                  *)
C1_SingleRefreshInFlight ==
    [][/\ Len(timers') <= 1
       /\ (clicks' = clicks + 1 /\ timers # <<>>) =>
             UNCHANGED <<timers, isLoading, analyticsData, value, hostValue, genCalls,
                         writes, fired>>]_vars

(* a second click was made while the first refresh was still pending *)
C1_Witness == clicks = 2 /\ fired = 0 /\ Len(timers) = 1 /\ isLoading

(* C2: mounted on a null host value, the component is Ready with a         *)
(* snapshot of exactly 7 history entries, after exactly one generator call *)
(* and one write, and the written string decodes to the displayed snapshot *)
C2_MountWithoutValue ==
    (initialValue.isNull /\ phase = "mounted" /\ clicks = 0) =>
        /\ Ready
        /\ IsSnapshot(analyticsData)
        /\ Len(Get(analyticsData, "pageViewsHistory").kids) = 7
        /\ genCalls = 1
        /\ writes = 1
        /\ value = Wrap(analyticsData)
        /\ ~hostValue.isNull
        /\ parseValue(hostValue) = Wrap(analyticsData)

C2_Witness == initialValue.isNull /\ phase = "mounted" /\ clicks = 0 /\ writes = 1

(* the documents of the host that carry a well-formed snapshot *)
SavedDocs == {j \in HostDocs : IsSnapshot(Get(j, "analyticsData"))}

(* C3: mounted on a persisted well-formed snapshot S0, the component is    *)
(* Ready(S0) and, until the refresh button is clicked, has made no write   *)
(* and no generator call, and the host's string is the one it was loaded   *)
(* with.                                                                   *)
C3_MountWithSavedSnapshot ==
    /\ \A j \in SavedDocs :
          (initialValue = Encode(j) /\ phase = "mounted" /\ clicks = 0) =>
              /\ Ready
              /\ analyticsData = Get(j, "analyticsData")
              /\ genCalls = 0
              /\ writes = 0
              /\ hostValue = initialValue
    /\ (IsSnapshot(OptGet(decoded, "analyticsData")) /\ phase = "mounted" /\ clicks = 0) =>
          /\ Ready
          /\ analyticsData = OptGet(decoded, "analyticsData")
          /\ genCalls = 0
          /\ writes = 0
          /\ hostValue = initialValue

C3_Witness ==
    /\ initialValue = Encode(Wrap(SavedSnapshot))
    /\ phase = "mounted"
    /\ clicks = 0
    /\ analyticsData = SavedSnapshot

(* C4: a click in Ready(S0) gives Refreshing(S0) in the same step, and     *)
(* every step that ends with the refresh still running leaves the          *)
(* displayed snapshot and the host's string as they were: the dashboard    *)
(* stays rendered with S0.                                                 *)
C4_StaleWhileRevalidate ==
    [][/\ (Ready /\ clicks' = clicks + 1) => (Refreshing' /\ analyticsData' = analyticsData)
       /\ isLoading' =>
             /\ analyticsData' = analyticsData
             /\ hostValue' = hostValue
             /\ RenderOutcome(analyticsData') = "dashboard"]_vars

C4_Witness == Refreshing /\ timers # <<>> /\ clicks = 1 /\ IsSnapshot(analyticsData)

(* C5: the timer callback of a refresh started in Ready(S0) calls the      *)
(* generator once and ends in Ready(S1) with isLoading false, S1 a         *)
(* well-formed snapshot other than S0, and the host's string decodes to    *)
(* {analyticsData: S1}.                                                    *)
C5_RefreshCompletes ==
    [][(Refreshing /\ fired' = fired + 1) =>
          /\ genCalls' = genCalls + 1
          /\ writes' = writes + 1
          /\ Ready'
          /\ IsSnapshot(analyticsData')
          /\ analyticsData' # analyticsData
          /\ value' = Wrap(analyticsData')
          /\ parseValue(hostValue') = Wrap(analyticsData')]_vars

C5_Witness == Ready /\ fired = 1 /\ genCalls >= 1 /\ parseValue(hostValue) = Wrap(analyticsData)

(* C6: whatever string the host holds, the element never ends in a failed  *)
(* render, and once mounted it is Ready with a well-formed snapshot.       *)
C6_NoFatalState ==
    /\ phase # "crashed"
    /\ (phase = "mounted" /\ clicks = 0) => (Ready /\ IsSnapshot(analyticsData))

(* the decode result carries no snapshot: InvalidValue, null, or a value   *)
(* whose analyticsData is null                                             *)
NothingSaved ==
    \/ decoded = invalidValue
    \/ decoded = JNull
    \/ decoded.t = "obj" /\ Get(decoded, "analyticsData") = JNull

(* C7: mounted on InvalidValue, on null or on a value whose analyticsData  *)
(* is null, the element reaches no failed render and is Ready with one     *)
(* freshly generated snapshot, after exactly one generator call and one    *)
(* write of that snapshot.                                                 *)
C7_InvalidValueRegenerates ==
    NothingSaved =>
        /\ phase # "crashed"
        /\ phase = "rendered" => analyticsData = JNull
        /\ (phase = "mounted" /\ clicks = 0) =>
              /\ Ready
              /\ IsSnapshot(analyticsData)
              /\ genCalls = 1
              /\ writes = 1
              /\ parseValue(hostValue) = Wrap(analyticsData)

C7_Witness ==
    /\ decoded = invalidValue
    /\ initialValue = Text(<<Word("not"), Word("json")>>)
    /\ phase = "mounted"
    /\ genCalls = 1
    /\ writes = 1

(* j is an object with a property analyticsData *)
HasAnalyticsDataField(j) ==
    j.t = "obj" /\ \E i \in 1..Len(j.keys) : j.keys[i] = "analyticsData"

(* C8: parseValue returns null exactly for the null input, "invalidValue"  *)
(* for a text that is not JSON and for the JSON text of a value without an *)
(* analyticsData field, and the value itself for the JSON text of an       *)
(* object with that field.                                                 *)
C8_ParseValueIsDecode ==
    phase = "loaded" =>
        /\ (decoded = JNull) <=> initialValue.isNull
        /\ \A c \in CodecCases :
              initialValue = c.text =>
                  decoded = IF c.text.isNull THEN JNull
                            ELSE IF c.isJson /\ HasAnalyticsDataField(c.doc) THEN c.doc
                            ELSE invalidValue

C8_Witness ==
    /\ phase = "loaded"
    /\ initialValue = Text(<<P("{"), P("}")>>)
    /\ decoded = invalidValue

(* the inputs that are the JSON text of an object with an analyticsData    *)
(* property                                                                *)
KeyedCases == {c \in CodecCases : c.isJson /\ HasAnalyticsDataField(c.doc)}

(* C9: the JSON text of an object with an analyticsData property decodes   *)
(* to that object whatever the property holds (null, a boolean, a number,  *)
(* a string, an array, a snapshot or part of one), never to                *)
(* "invalidValue"; the text without the property does.                     *)
C9_PresenceOnly ==
    phase = "loaded" =>
        /\ \A c \in KeyedCases :
              initialValue = c.text =>
                  /\ decoded # invalidValue
                  /\ decoded.t = "obj"
                  /\ decoded.keys = c.doc.keys
                  /\ Get(decoded, "analyticsData") = Get(c.doc, "analyticsData")
        /\ initialValue = Text(<<P("{"), P("}")>>) => decoded = invalidValue

C9_Witness ==
    /\ phase = "loaded"
    /\ initialValue = Text(<<P("{"), StrTok("analyticsData"), P(":"), Lit("null"), P("}")>>)
    /\ decoded = Wrap(JNull)

(* the wrappers of a well-formed snapshot or of null *)
RoundTripDocs == {Wrap(SavedSnapshot), Wrap(JNull)}

(* C10: the encoding of a wrapper {analyticsData: s}, s a well-formed      *)
(* snapshot or null, decodes to that wrapper; so the string the element    *)
(* has written decodes to the value it wrote, and an element reloaded on   *)
(* it displays the snapshot that was displayed before the reload.          *)
C10_RoundTrip ==
    /\ phase # "boot" =>
          \A j \in RoundTripDocs : initialValue = Encode(j) => decoded = j
    /\ writes > 0 => parseValue(hostValue) = value
    /\ (writes > 0 /\ phase = "mounted") =>
          (IsSnapshot(analyticsData) /\ value = Wrap(analyticsData))
    /\ (reloads > 0 /\ phase = "mounted" /\ clicks = 0 /\ IsSnapshot(lastShown)) =>
          (analyticsData = lastShown /\ writes = 0)

C10_Witness ==
    /\ reloads = 1
    /\ phase = "mounted"
    /\ IsSnapshot(lastShown)
    /\ analyticsData = lastShown
    /\ lastShown # SavedSnapshot

----------------------------------------------------------------------------
(* C11: isConfig returns false exactly for null: every object is accepted, *)
(* the empty one and those with unknown or wrong-typed fields included.    *)
C11_IsConfigOnlyRejectsNull ==
    phase = "loaded" =>
        /\ configOk <=> config # JNull
        /\ config = EmptyConfig => configOk
        /\ (config.t = "obj" /\ OptGet(config, "refreshInterval").t \notin {"num", "undefined"})
              => configOk
        /\ (config.t = "obj" /\ OptGet(config, "apiKey").t # "undefined") => configOk

(* the check accepted a configuration whose refreshInterval is a string    *)
(* and that has an unknown field                                           *)
C11_Witness ==
    /\ phase = "loaded"
    /\ config = ObjSet(ObjSet(EmptyConfig, "refreshInterval", JStr("")), "apiKey", JStr("k"))
    /\ configOk


----------------------------------------------------------------------------
(* C12: parseValue throws for no input: its result is null, "invalidValue" *)
(* or the parsed object; the JSON text of a value that is no object (null, *)
(* a number, a string, a boolean, an array) gives "invalidValue".          *)
C12_ParseValueNeverThrows ==
    phase = "loaded" =>
        /\ decoded.t # "throw"
        /\ \/ decoded = JNull
           \/ decoded = invalidValue
           \/ decoded.t = "obj" /\ JsonParse(initialValue.toks) = [threw |-> FALSE, val |-> decoded]
        /\ \A c \in CodecCases :
              (initialValue = c.text /\ c.isJson /\ c.doc.t # "obj") => decoded = invalidValue

(* the text of a JSON primitive, on which the `in` operator throws, was    *)
(* decoded                                                                 *)
C12_Witness ==
    /\ phase = "loaded"
    /\ initialValue = Text(Stringify(JInt(5)))
    /\ decoded = invalidValue

----------------------------------------------------------------------------
(* C13: the write of a refresh carries the snapshot that the generator     *)
(* call of the same timer callback produced (its lastUpdated is the        *)
(* instant of the callback), and a refresh starts only when no timer is    *)
(* pending, isLoading is false and the write of the previous refresh is    *)
(* what the host holds.                                                    *)
C13_WriteAfterGenerateBeforeNextRefresh ==
    [][/\ fired' = fired + 1 =>
             /\ genCalls' = genCalls + 1
             /\ writes' = writes + 1
             /\ now' >= now
             /\ IsSnapshot(Get(value', "analyticsData"))
             /\ Get(Get(value', "analyticsData"), "lastUpdated") = JStr(toISOString(now'))
             /\ parseValue(hostValue') = value'
             /\ phase = "mounted" =>
                   (~isLoading' /\ analyticsData' = Get(value', "analyticsData"))
       /\ Len(timers') > Len(timers) =>
             /\ timers = <<>>
             /\ ~isLoading
             /\ writes = genCalls
             /\ fired > 0 =>
                   /\ parseValue(hostValue) = Wrap(analyticsData)
                   /\ Get(analyticsData, "lastUpdated") = JStr(toISOString(now))]_vars

(* a second refresh was started after the first had written *)
C13_Witness == clicks = 2 /\ fired = 1 /\ writes >= 1 /\ Len(timers) = 1 /\ isLoading

----------------------------------------------------------------------------
----------------------------------------------------------------------------
(* C15: whatever the element has written to the host is a whole value      *)
(* {analyticsData: s}, with no other key, whose s is a complete snapshot   *)
(* (all six fields, 7 history entries) generated at the instant of the     *)
(* write; the host's string is the text of that whole value, never null.   *)
C15_WritesAreWholeValues ==
    writes > 0 =>
        /\ value.t = "obj"
        /\ value.keys = <<"analyticsData">>
        /\ IsSnapshot(value.kids[1])
        /\ Len(Get(value.kids[1], "pageViewsHistory").kids) = 7
        /\ Get(value.kids[1], "lastUpdated") = JStr(toISOString(now))
        /\ ~hostValue.isNull
        /\ JsonParse(hostValue.toks) = [threw |-> FALSE, val |-> value]

(* the mount effect and then a refresh have written *)
C15_Witness == initialValue.isNull /\ writes = 2 /\ fired = 1 /\ ~hostValue.isNull

----------------------------------------------------------------------------
(* C16: once the mount effect has run, the displayed snapshot is the       *)
(* analyticsData of the value last read from or written to the host, and   *)
(* of what the host's string decodes to; and a step that changes the       *)
(* displayed snapshot of the mounted component writes that snapshot.       *)
C16_DisplayMatchesPersistence ==
    /\ [](phase = "mounted" =>
            /\ analyticsData = OptGet(value, "analyticsData")
            /\ analyticsData = OptGet(UseValue(parseValue(hostValue)), "analyticsData"))
    /\ [][(phase \in {"rendered", "mounted"} /\ phase' = "mounted"
             /\ analyticsData' # analyticsData) =>
              /\ writes' = writes + 1
              /\ value' = Wrap(analyticsData')
              /\ parseValue(hostValue') = Wrap(analyticsData')]_vars

(* the reloaded element has displayed the snapshot it read from the host   *)
(* and a refresh has then replaced it                                      *)
C16_Witness ==
    /\ phase = "mounted"
    /\ reloads = 1
    /\ fired = 1
    /\ IsSnapshot(analyticsData)
    /\ analyticsData # lastShown
    /\ analyticsData = OptGet(value, "analyticsData")

----------------------------------------------------------------------------
(* C17: in every state of a session the number of writes is the number of  *)
(* generator calls: none before the mount effect, then one if the decoded  *)
(* value carried no usable snapshot, plus one per timer callback that has  *)
(* run.                                                                    *)
C17_WritesEqualGeneratorCalls ==
    /\ writes = genCalls
    /\ phase \in {"boot", "loaded", "rendered"} => writes = 0
    /\ phase \in {"mounted", "unmounted"} =>
          writes = fired + (IF Truthy(OptGet(decoded, "analyticsData")) THEN 0 ELSE 1)

(* mounted on a saved snapshot without a write, then one refresh completed *)
C17_Witness ==
    /\ phase = "mounted"
    /\ Truthy(OptGet(decoded, "analyticsData"))
    /\ clicks = 2
    /\ fired = 1
    /\ writes = 1
    /\ genCalls = 1

----------------------------------------------------------------------------
(* C18: in every generated snapshot pageViews and uniqueVisitors are       *)
(* integers with 0 <= uniqueVisitors <= pageViews, pageViews being the sum *)
(* of 7 daily views that each lie in 100..599.                             *)
C18_VisitorsWithinPageViews ==
    genCalls = 1 =>
        LET pageViews == Get(analyticsData, "pageViews")
            uniqueVisitors == Get(analyticsData, "uniqueVisitors")
            history == Get(analyticsData, "pageViewsHistory").kids
        IN  /\ IsSnapshot(analyticsData)
            /\ pageViews.n % 10 = 0
            /\ uniqueVisitors.n % 10 = 0
            /\ 0 <= uniqueVisitors.n
            /\ uniqueVisitors.n <= pageViews.n
            /\ \A i \in 1..Len(history) :
                  /\ Get(history[i], "views").n % 10 = 0
                  /\ Get(history[i], "views").n >= 10 * 100
                  /\ Get(history[i], "views").n <= 10 * 599
            /\ pageViews.n = 10 * SumViews(history, 1)

(* the greatest views on every day with the greatest visitor ratio *)
C18_Witness ==
    /\ genCalls = 1
    /\ Get(analyticsData, "pageViews") = JInt(7 * 599)
    /\ Get(analyticsData, "uniqueVisitors").n > 10 * 3350

----------------------------------------------------------------------------
(* C19: the 7 dates of a generated history are pairwise distinct, each is  *)
(* the calendar day after its predecessor, and the last is the day of      *)
(* lastUpdated, at every instant and in every time zone.                   *)
C19_ConsecutiveDays ==
    genCalls = 1 =>
        LET history == Get(analyticsData, "pageViewsHistory").kids
            date(i) == Get(history[i], "date")
        IN  /\ Len(history) = 7
            /\ \A i \in 1..7, j \in 1..7 : i # j => date(i) # date(j)
            /\ \A i \in 1..6 :
                  \E d \in 0..(now \div DayMs) :
                      date(i) = JStr(IsoDate(d)) /\ date(i + 1) = JStr(IsoDate(d + 1))
            /\ Get(analyticsData, "lastUpdated") = JStr(toISOString(now))
            /\ date(7) = JStr(IsoDay(now))

====
